---- MODULE Spec2Model ----
(***************************************************************************)
(* ClarityApp (index.tsx): the zustand store of the conflict-resolution    *)
(* workspace, the React components that call its actions, and the timers   *)
(* of VerificationView.                                                    *)
(*                                                                         *)
(* JavaScript objects are modelled as functions over their own keys: an    *)
(* optional field that was never written is a key that is not in DOMAIN,   *)
(* and the spread {...a, ...b} is Spread(a, b).  A null string is NULL, a  *)
(* null draft is NoDraft.                                                  *)
(***************************************************************************)
EXTENDS Integers, Sequences, FiniteSets, TLC

\* ---------------------------------------------------------------- bounds

\* Verification runs whose timers may be pending at the same time.
MaxRuns == 2

\* Readings of the wall clock (new Date()) are 0..MaxClock.
MaxClock == 1

\* Form inputs (radio, checkbox, textarea) the reviewer makes on one draft
\* while no verification timer is pending ...
MaxInputs == 2

\* ... and while timers of a verification run are still pending.
MaxStaleInputs == 0

\* ------------------------------------------------------------ JS helpers

NULL == "null"

EmptyObject == [k \in {} |-> NULL]

NoDraft == EmptyObject

\* {...a, ...b}
Spread(a, b) ==
  [k \in (DOMAIN a) \cup (DOMAIN b) |-> IF k \in DOMAIN b THEN b[k] ELSE a[k]]

RECURSIVE FindIndex(_, _, _)
\* the first index i >= from of seq with seq[i].id = id, 0 when there is none
FindIndex(seq, id, from) ==
  IF from > Len(seq) THEN 0
  ELSE IF seq[from].id = id THEN from
  ELSE FindIndex(seq, id, from + 1)

\* array.find(x => x.id === id): <<x>> when found, <<>> (undefined) otherwise
FindById(seq, id) ==
  LET i == FindIndex(seq, id, 1) IN IF i = 0 THEN <<>> ELSE <<seq[i]>>

\* --------------------------------------------------------------- utils

\* simpleDiff without the span of the original text
simpleDiff_InsertionOnly(oldText, newText) ==
  IF oldText = newText
  THEN << [class |-> "nochange", text |-> "No changes detected."] >>
  ELSE << [class |-> "insertion", text |-> newText] >>

\* The element simpleDiff returns, as the sequence of its spans.  The word
\* lists it splits the two texts into are not used for the result.
simpleDiff(oldText, newText) ==
  IF oldText = newText
  THEN << [class |-> "nochange", text |-> "No changes detected."] >>
  ELSE << [class |-> "deletion", text |-> oldText],
          [class |-> "insertion", text |-> newText] >>

\* ------------------------------------------------------------- mock data

MOCK_CONFLICTS ==
  << [ id |-> "C-001", type |-> "TEMPORAL",
       title |-> "Security Certification Evolution", status |-> "OPEN",
       mentions |->
         << [id |-> "m1", docId |-> "d1", text |-> "We are SOC 2 Type 1 certified"],
            [id |-> "m2", docId |-> "d2", text |-> "We are SOC 2 Type 2 certified"],
            [id |-> "m3", docId |-> "d3", text |-> "We are HITRUST certified"] >> ],
     [ id |-> "C-002", type |-> "CONTRADICTION",
       title |-> "HIPAA Compliance Status", status |-> "OPEN",
       mentions |->
         << [id |-> "m4", docId |-> "d3", text |-> "We are HIPAA compliant and BAA-ready"],
            [id |-> "m5", docId |-> "d4",
             text |-> "HIPAA compliance certification pending Q2 2024"] >> ],
     [ id |-> "C-003", type |-> "INTRA_DOC",
       title |-> "Service Pricing Inconsistency", status |-> "OPEN",
       mentions |->
         << [id |-> "m6", docId |-> "d5", text |-> "Monthly fee: $50,000 per month"],
            [id |-> "m7", docId |-> "d5", text |-> "Customer will pay $45,000 monthly"],
            [id |-> "m8", docId |-> "d5", text |-> "Total monthly recurring: $52,000"] >> ] >>

\* The files UploadScreen.handleDrop puts in the store.
MOCK_FILES ==
  << "2022_Healthcare_RFP.pdf", "2024_Product_Specs.pdf",
     "Enterprise_Services_Agreement.docx" >>

\* The progress messages of VerificationView, in order.
steps ==
  << "Initiating consistency check...",
     "Analyzing semantic vectors...",
     "Verifying temporal coherence...",
     "Updating knowledge graph indices...",
     "Generating audit trail hash..." >>

ManualAction == {"UPDATE", "CLARIFY", "ERROR", "KEEP"}

\* ContradictionResolutionForm's counter: (reasoning?.length || 0) < 20
MinReasoningChars == 20

\* ManualEditorForm's counter: {charCount}/1000
MaxTextChars == 1000

\* ------------------------------------------------- inputs of the reviewer

\* A text of 1001 characters (91 times "0123456789 ").
LongText ==
  "0123456789 0123456789 0123456789 0123456789 0123456789 0123456789 0123456789 0123456789 0123456789 0123456789 0123456789 0123456789 0123456789 0123456789 0123456789 0123456789 0123456789 0123456789 0123456789 0123456789 0123456789 0123456789 0123456789 0123456789 0123456789 0123456789 0123456789 0123456789 0123456789 0123456789 0123456789 0123456789 0123456789 0123456789 0123456789 0123456789 0123456789 0123456789 0123456789 0123456789 0123456789 0123456789 0123456789 0123456789 0123456789 0123456789 0123456789 0123456789 0123456789 0123456789 0123456789 0123456789 0123456789 0123456789 0123456789 0123456789 0123456789 0123456789 0123456789 0123456789 0123456789 0123456789 0123456789 0123456789 0123456789 0123456789 0123456789 0123456789 0123456789 0123456789 0123456789 0123456789 0123456789 0123456789 0123456789 0123456789 0123456789 0123456789 0123456789 0123456789 0123456789 0123456789 0123456789 0123456789 0123456789 0123456789 0123456789 0123456789 0123456789 0123456789 0123456789 "

\* LoginScreen's username field (its default value).
Usernames == {"Dr. A. Vance"}

\* What the reviewer types into the reasoning textarea.
ReasoningInputs == {"ok", "Confirmed via compliance audit"}

\* What the reviewer types into a mention's textarea of ManualEditorForm.
\* the second one has 1001 characters: the textarea has no maxLength
TypedTexts == {"Monthly fee: $52,000 per month", LongText}

\* ----------------------------------------------------------------- state

VARIABLES
  state,       \* the zustand store: view, currentUser, files, conflicts,
               \* selectedConflictId, workspaceMode, resolutionDraft
  localFiles,  \* UploadScreen's useState files
  logs,        \* the mounted VerificationView's useState logs
  runs,        \* per verification run (one effect of VerificationView): its timers
  now,         \* the last reading of the wall clock
  inputs       \* form inputs made on the current draft (bounds the exploration)

vars == << state, localFiles, logs, runs, now, inputs >>

\* ------------------------------------------------------- the zustand store
\* A store action maps the state st to the state after its set(): the partial
\* object it hands to set() is spread over st.

InitialState ==
  [ view |-> "login", currentUser |-> NULL, files |-> << >>, conflicts |-> << >>,
    selectedConflictId |-> NULL, workspaceMode |-> "view",
    resolutionDraft |-> NoDraft ]

login(st, username) ==
  Spread(st, [ currentUser |-> username, view |-> "upload", files |-> << >>,
               conflicts |-> << >>, selectedConflictId |-> NULL,
               workspaceMode |-> "view", resolutionDraft |-> NoDraft ])

\* logout leaving the draft in the store
logout_KeepsDraft(st) ==
  Spread(st, [ currentUser |-> NULL, view |-> "login", files |-> << >>,
               conflicts |-> << >>, selectedConflictId |-> NULL,
               workspaceMode |-> "view" ])

logout(st) ==
  Spread(st, [ currentUser |-> NULL, view |-> "login", files |-> << >>,
               conflicts |-> << >>, selectedConflictId |-> NULL,
               workspaceMode |-> "view", resolutionDraft |-> NoDraft ])

setView(st, v) == Spread(st, [view |-> v])

setFiles(st, fs) == Spread(st, [files |-> fs])

\* selectConflict without the reset of the draft
selectConflict_KeepsDraft(st, id) ==
  Spread(st, [selectedConflictId |-> id, workspaceMode |-> "view"])

selectConflict(st, id) ==
  Spread(st, [ selectedConflictId |-> id, workspaceMode |-> "view",
               resolutionDraft |-> NoDraft ])

loadMockData(st) ==
  Spread(st, [ conflicts |-> MOCK_CONFLICTS,
               selectedConflictId |-> MOCK_CONFLICTS[1].id ])

\* startResolution keeping the fields of the draft there was
startResolution_KeepsOldFields(st) ==
  IF st.selectedConflictId = NULL
  THEN st
  ELSE Spread(st, [ workspaceMode |-> "resolve",
                    resolutionDraft |->
                      Spread(st.resolutionDraft,
                             [ conflictId |-> st.selectedConflictId,
                               edits |-> EmptyObject ]) ])

startResolution(st) ==
  IF st.selectedConflictId = NULL
  THEN st
  ELSE Spread(st, [ workspaceMode |-> "resolve",
                    resolutionDraft |->
                      [conflictId |-> st.selectedConflictId, edits |-> EmptyObject] ])

\* cancelResolution leaving the draft in the store
cancelResolution_KeepsDraft(st) == Spread(st, [workspaceMode |-> "view"])

cancelResolution(st) ==
  Spread(st, [workspaceMode |-> "view", resolutionDraft |-> NoDraft])

goToPreview(st) == Spread(st, [workspaceMode |-> "preview"])

\* returnToEdit going back to a draft without its manual edits
returnToEdit_DropsEdits(st) ==
  Spread(st, [ workspaceMode |-> "resolve",
               resolutionDraft |->
                 IF st.resolutionDraft # NoDraft
                 THEN Spread(st.resolutionDraft, [edits |-> EmptyObject])
                 ELSE NoDraft ])

returnToEdit(st) == Spread(st, [workspaceMode |-> "resolve"])

submitResolution(st) == Spread(st, [workspaceMode |-> "verifying"])

\* finalizeResolution without the stamp
finalizeResolution_NoStamp(st, t) ==
  Spread(st, [ workspaceMode |-> "resolved",
               conflicts |->
                 [i \in DOMAIN st.conflicts |->
                    IF st.conflicts[i].id = st.selectedConflictId
                    THEN Spread(st.conflicts[i], [status |-> "RESOLVED"])
                    ELSE st.conflicts[i]] ])

\* finalizeResolution mapping over the loaded snapshot, not the current list
finalizeResolution_FromSnapshot(st, t) ==
  Spread(st, [ workspaceMode |-> "resolved",
               conflicts |->
                 [i \in DOMAIN st.conflicts |->
                    IF st.conflicts[i].id = st.selectedConflictId
                    THEN Spread(st.conflicts[i],
                                [status |-> "RESOLVED", resolvedAt |-> t])
                    ELSE MOCK_CONFLICTS[i]] ])

\* finalizeResolution marking every conflict of the list
finalizeResolution_MarksAll(st, t) ==
  Spread(st, [ workspaceMode |-> "resolved",
               conflicts |->
                 [i \in DOMAIN st.conflicts |->
                    Spread(st.conflicts[i],
                           [status |-> "RESOLVED", resolvedAt |-> t])] ])

\* finalizeResolution marking the first conflict when none is selected
finalizeResolution_DefaultsToFirst(st, t) ==
  Spread(st, [ workspaceMode |-> "resolved",
               conflicts |->
                 [i \in DOMAIN st.conflicts |->
                    IF st.conflicts[i].id = st.selectedConflictId
                       \/ (i = 1 /\ FindById(st.conflicts, st.selectedConflictId) = << >>)
                    THEN Spread(st.conflicts[i],
                                [status |-> "RESOLVED", resolvedAt |-> t])
                    ELSE st.conflicts[i]] ])

\* t is new Date().toISOString()
finalizeResolution(st, t) ==
  Spread(st, [ workspaceMode |-> "resolved",
               conflicts |->
                 [i \in DOMAIN st.conflicts |->
                    IF st.conflicts[i].id = st.selectedConflictId
                    THEN Spread(st.conflicts[i],
                                [status |-> "RESOLVED", resolvedAt |-> t])
                    ELSE st.conflicts[i]] ])

\* setAllCleared keeping the selection
setAllCleared_KeepsSelection(st) == Spread(st, [workspaceMode |-> "all_cleared"])

setAllCleared(st) ==
  Spread(st, [workspaceMode |-> "all_cleared", selectedConflictId |-> NULL])

\* initManualDraft leaving out the last mention of the conflict
initManualDraft_SkipsLast(st, c) ==
  LET edits ==
        [id \in {c.mentions[i].id : i \in 1..(Len(c.mentions) - 1)} |->
           [ text |-> FindById(c.mentions, id)[1].text, action |-> "UPDATE",
             isDirty |-> FALSE ]]
  IN  Spread(st, [ workspaceMode |-> "resolve",
                   resolutionDraft |-> [conflictId |-> c.id, edits |-> edits] ])

initManualDraft(st, c) ==
  LET edits ==
        [id \in {c.mentions[i].id : i \in DOMAIN c.mentions} |->
           [ text |-> FindById(c.mentions, id)[1].text, action |-> "UPDATE",
             isDirty |-> FALSE ]]
  IN  Spread(st, [ workspaceMode |-> "resolve",
                   resolutionDraft |-> [conflictId |-> c.id, edits |-> edits] ])

\* updateDraft making a draft of the updates when there is none
updateDraft_CreatesDraft(st, updates) ==
  Spread(st, [ resolutionDraft |->
                 IF st.resolutionDraft # NoDraft
                 THEN Spread(st.resolutionDraft, updates)
                 ELSE updates ])

\* updateDraft keeping only conflictId and edits beside the updates
updateDraft_DropsOtherFields(st, updates) ==
  Spread(st, [ resolutionDraft |->
                 IF st.resolutionDraft # NoDraft
                 THEN Spread([ conflictId |-> st.resolutionDraft.conflictId,
                               edits |-> st.resolutionDraft.edits ], updates)
                 ELSE NoDraft ])

updateDraft(st, updates) ==
  Spread(st, [ resolutionDraft |->
                 IF st.resolutionDraft # NoDraft
                 THEN Spread(st.resolutionDraft, updates)
                 ELSE NoDraft ])

\* updateManualEdit keeping an isDirty that was true
updateManualEdit_StickyDirty(st, mentionId, text, action) ==
  IF st.resolutionDraft = NoDraft
  THEN st
  ELSE
    LET c == FindById(st.conflicts, st.selectedConflictId)
        originalMention ==
          IF c = << >> THEN << >> ELSE FindById(c[1].mentions, mentionId)
        wasDirty ==
          mentionId \in DOMAIN st.resolutionDraft.edits
            /\ st.resolutionDraft.edits[mentionId].isDirty
        isDirty ==
          IF originalMention # << >>
          THEN wasDirty \/ text # originalMention[1].text
          ELSE TRUE
    IN  Spread(st, [ resolutionDraft |->
                       Spread(st.resolutionDraft,
                              [ edits |->
                                  Spread(st.resolutionDraft.edits,
                                         [k \in {mentionId} |->
                                            [ text |-> text, action |-> action,
                                              isDirty |-> isDirty ]]) ]) ])

\* updateManualEdit flipping the isDirty of an edit that exists
updateManualEdit_TogglesDirty(st, mentionId, text, action) ==
  IF st.resolutionDraft = NoDraft
  THEN st
  ELSE
    LET isDirty ==
          IF mentionId \in DOMAIN st.resolutionDraft.edits
          THEN ~st.resolutionDraft.edits[mentionId].isDirty
          ELSE TRUE
    IN  Spread(st, [ resolutionDraft |->
                       Spread(st.resolutionDraft,
                              [ edits |->
                                  Spread(st.resolutionDraft.edits,
                                         [k \in {mentionId} |->
                                            [ text |-> text, action |-> action,
                                              isDirty |-> isDirty ]]) ]) ])

\* updateManualEdit dropping the edits of the other mentions
updateManualEdit_DropsOtherEdits(st, mentionId, text, action) ==
  IF st.resolutionDraft = NoDraft
  THEN st
  ELSE
    LET c == FindById(st.conflicts, st.selectedConflictId)
        originalMention ==
          IF c = << >> THEN << >> ELSE FindById(c[1].mentions, mentionId)
        isDirty ==
          IF originalMention # << >> THEN text # originalMention[1].text ELSE TRUE
    IN  Spread(st, [ resolutionDraft |->
                       Spread(st.resolutionDraft,
                              [ edits |->
                                  [k \in {mentionId} |->
                                     [ text |-> text, action |-> action,
                                       isDirty |-> isDirty ]] ]) ])

updateManualEdit(st, mentionId, text, action) ==
  IF st.resolutionDraft = NoDraft
  THEN st
  ELSE
    LET c == FindById(st.conflicts, st.selectedConflictId)
        originalMention ==
          IF c = << >> THEN << >> ELSE FindById(c[1].mentions, mentionId)
        isDirty ==
          IF originalMention # << >> THEN text # originalMention[1].text ELSE TRUE
    IN  Spread(st, [ resolutionDraft |->
                       Spread(st.resolutionDraft,
                              [ edits |->
                                  Spread(st.resolutionDraft.edits,
                                         [k \in {mentionId} |->
                                            [ text |-> text, action |-> action,
                                              isDirty |-> isDirty ]]) ]) ])

\* downloadExport with the number of all conflicts as the resolved count
exportData_CountsAll(st, t) ==
  [ generatedAt |-> t,
    user |-> st.currentUser,
    summary |-> [ totalConflicts |-> Len(st.conflicts),
                  resolved |-> Len(st.conflicts) ],
    auditLog |->
      [i \in DOMAIN st.conflicts |->
         LET c == st.conflicts[i]
         IN  Spread([id |-> c.id, title |-> c.title, status |-> c.status,
                     type |-> c.type],
                    IF "resolvedAt" \in DOMAIN c
                    THEN [resolvedAt |-> c.resolvedAt] ELSE EmptyObject)] ]

IsResolved(c) == c.status = "RESOLVED"

\* downloadExport: the exportData it serializes; t is new Date().toISOString().
\* JSON.stringify leaves out the resolvedAt of a conflict that has none.
exportData(st, t) ==
  [ generatedAt |-> t,
    user |-> st.currentUser,
    summary |-> [ totalConflicts |-> Len(st.conflicts),
                  resolved |-> Len(SelectSeq(st.conflicts, IsResolved)) ],
    auditLog |->
      [i \in DOMAIN st.conflicts |->
         LET c == st.conflicts[i]
         IN  Spread([id |-> c.id, title |-> c.title, status |-> c.status,
                     type |-> c.type],
                    IF "resolvedAt" \in DOMAIN c
                    THEN [resolvedAt |-> c.resolvedAt] ELSE EmptyObject)] ]

\* ------------------------------------------------------------- rendering

\* allResolved true as soon as one conflict is resolved
allResolved_SomeResolved(st) ==
  Len(st.conflicts) > 0
    /\ \E i \in DOMAIN st.conflicts : st.conflicts[i].status = "RESOLVED"

\* TopBar: const allResolved = ...
allResolved(st) ==
  Len(st.conflicts) > 0
    /\ \A i \in DOMAIN st.conflicts : st.conflicts[i].status = "RESOLVED"

\* ConflictWorkspace: const conflict = conflicts.find(c => c.id === selectedConflictId)
conflict(st) == FindById(st.conflicts, st.selectedConflictId)

\* App renders ConflictWorkspace in the dashboard view; ConflictWorkspace shows
\* AllClearView, the "select a conflict" placeholder, VerificationView,
\* ResolvedView or the workspace proper, in that order of tests.
AllClearViewShown(st) ==
  st.view = "dashboard" /\ st.workspaceMode = "all_cleared"

ConflictShown(st) ==
  st.view = "dashboard" /\ st.workspaceMode # "all_cleared" /\ conflict(st) # << >>

VerificationViewShown(st) ==
  ConflictShown(st) /\ st.workspaceMode = "verifying"

ResolvedViewShown(st) ==
  ConflictShown(st) /\ st.workspaceMode = "resolved"

MainShown(st) ==
  ConflictShown(st) /\ st.workspaceMode \notin {"verifying", "resolved"}

\* The action footer rendered for a RESOLVED conflict too
FooterShown_AnyStatus(st) == MainShown(st)

\* The action footer: {conflict.status !== 'RESOLVED' && (...)}
FooterShown(st) ==
  MainShown(st) /\ conflict(st)[1].status # "RESOLVED"

\* Sidebar: one <li> per conflict (any of them can pass the filters)
SidebarShown(st) == st.view = "dashboard"

\* PreviewPanel's Text Modifications: per dirty edit of a mention of the
\* conflict, simpleDiff(mention.text, draft.text)
PreviewDiffs(st) ==
  IF MainShown(st) /\ st.workspaceMode = "preview" /\ st.resolutionDraft # NoDraft
  THEN LET edits == st.resolutionDraft.edits
           shown == {id \in DOMAIN edits :
                       edits[id].isDirty
                         /\ FindById(conflict(st)[1].mentions, id) # << >>}
       IN  [id \in shown |->
              simpleDiff(FindById(conflict(st)[1].mentions, id)[1].text,
                         edits[id].text)]
  ELSE EmptyObject

\* --------------------------------------------- VerificationView's timers
\* A run is one execution of VerificationView's effect.  It schedules one
\* timer per step with strictly growing delays, so the step callbacks of a
\* run fire in order; the last one schedules finalizeResolution.  Nothing
\* clears a timer: a run whose component was unmounted keeps firing.  The
\* delays are random, so callbacks of different runs interleave freely.
\*   conflictId       the conflict of the draft the run was submitted for
\*   pending          step timers that have not fired yet
\*   finalizePending  scheduled finalizeResolution timers that have not fired
\*   finalized        how often the run has called finalizeResolution
\*   mounted          whether the VerificationView of the run is still mounted

IdleRun ==
  [ conflictId |-> NULL, pending |-> 0, finalizePending |-> 0, finalized |-> 0,
    mounted |-> FALSE ]

TimersPending(run) == run.pending > 0 \/ run.finalizePending > 0

\* A slot of the run table whose timers have all fired (the lowest one).
FreeSlots(rs) == {r \in DOMAIN rs : ~TimersPending(rs[r])}

Unmount(rs) == [r \in DOMAIN rs |-> [rs[r] EXCEPT !.mounted = FALSE]]

\* useEffect(() => { steps.forEach(... setTimeout(..., delay)) }, [...]) of a
\* VerificationView that has just been mounted
Mount(rs, st) ==
  LET slot == CHOOSE r \in FreeSlots(rs) : \A q \in FreeSlots(rs) : r <= q
  IN  [ Unmount(rs) EXCEPT ![slot] =
          [ conflictId |->
              IF st.resolutionDraft # NoDraft THEN st.resolutionDraft.conflictId
              ELSE NULL,
            pending |-> Len(steps), finalizePending |-> 0, finalized |-> 0,
            mounted |-> TRUE ] ]

\* React after a store change from before to after: << runs, logs >>
Render(rs, lg, before, after) ==
  IF VerificationViewShown(after) /\ ~VerificationViewShown(before)
  THEN << Mount(rs, after), << >> >>
  ELSE IF ~VerificationViewShown(after)
  THEN << Unmount(rs), << >> >>
  ELSE << rs, lg >>

\* finalizeResolution scheduled from the last two steps
SchedulesFinalize_LastTwo(idx) == idx >= Len(steps) - 1

\* if (idx === steps.length - 1) setTimeout(finalizeResolution, 800)
SchedulesFinalize(idx) == idx = Len(steps)

\* The step timer of a run that fires next: setLogs(prev => [...prev, step])
\* (a no-op on an unmounted component), then the scheduling of finalize.
StepCallback(run) ==
  LET idx == Len(steps) - run.pending + 1
  IN  [ run EXCEPT !.pending = @ - 1,
                   !.finalizePending = IF SchedulesFinalize(idx) THEN @ + 1 ELSE @ ]

LogsAfterStep(run, lg) ==
  LET idx == Len(steps) - run.pending + 1
  IN  IF run.mounted THEN Append(lg, steps[idx]) ELSE lg

\* ---------------------------------------------------------------- actions

Init ==
  /\ state = InitialState
  /\ localFiles = << >>
  /\ logs = << >>
  /\ runs = [r \in 1..MaxRuns |-> IdleRun]
  /\ now = 0
  /\ inputs = 0

\* A handler that leaves the store in state st: React re-renders, and the
\* local state of UploadScreen lives only while the upload view shows it.
Handled(st, lf) ==
  /\ state' = st
  /\ localFiles' = IF st.view = "upload" THEN lf ELSE << >>
  /\ runs' = Render(runs, logs, state, st)[1]
  /\ logs' = Render(runs, logs, state, st)[2]
  /\ now' = now
  /\ inputs' = IF st.workspaceMode \in {"resolve", "preview"}
                  /\ st.resolutionDraft # NoDraft
                  /\ state.resolutionDraft # NoDraft
               THEN inputs ELSE 0

\* A form input that leaves the store in state st.
Input(st) ==
  /\ inputs < (IF \E r \in DOMAIN runs : TimersPending(runs[r])
               THEN MaxStaleInputs ELSE MaxInputs)
  /\ state' = st
  /\ inputs' = inputs + 1
  /\ UNCHANGED << localFiles, runs, logs, now >>

\* LoginScreen.handleLogin and the login(username) it schedules.  The 1500 ms
\* between the two are not modelled: nothing but timer callbacks can run in
\* them, and login overwrites every field those write.
Login ==
  /\ state.view = "login"
  /\ \E username \in Usernames :
       Handled(login(state, username), localFiles)

\* TopBar's End Session button
Logout ==
  /\ state.view # "login"
  /\ Handled(logout(state), localFiles)

\* TopBar's Export button (disabled unless allResolved) and AllClearView's
\* download button (never disabled): downloadExport reads
\* the store and the clock and hands exportData(state, t) to the browser; it
\* writes nothing to the store.
DownloadExportAt(t) ==
  /\ state.view = "dashboard"
  /\ allResolved(state) \/ AllClearViewShown(state)
  /\ t \in now..MaxClock
  /\ now' = t
  /\ UNCHANGED << state, localFiles, runs, logs, inputs >>

DownloadExport == \E t \in 0..MaxClock : DownloadExportAt(t)

\* UploadScreen.handleDrop (a drop, or the Select Files button)
HandleDrop ==
  /\ state.view = "upload"
  /\ Handled(setFiles(state, MOCK_FILES), MOCK_FILES)

\* UploadScreen's Clear button: setLocalFiles([])
ClearLocalFiles ==
  /\ state.view = "upload"
  /\ localFiles # << >>
  /\ Handled(state, << >>)

\* UploadScreen.startAnalysis
StartAnalysis ==
  /\ state.view = "upload"
  /\ localFiles # << >>
  /\ Handled(loadMockData(setView(state, "analyzing")), localFiles)

\* AnalyzingScreen: the progress interval reaches 100 and onComplete runs
AnalysisComplete ==
  /\ state.view = "analyzing"
  /\ Handled(setView(state, "dashboard"), localFiles)

\* Sidebar: onClick={() => selectConflict(conflict.id)}
SidebarSelectOf(id) ==
  /\ SidebarShown(state)
  /\ \E i \in DOMAIN state.conflicts : state.conflicts[i].id = id
  /\ Handled(selectConflict(state, id), localFiles)

SidebarSelect ==
  \E id \in {MOCK_CONFLICTS[i].id : i \in DOMAIN MOCK_CONFLICTS} : SidebarSelectOf(id)

\* Footer, view mode: Quick Resolve (TEMPORAL) and Pick Correct (CONTRADICTION)
ClickStartResolution ==
  /\ FooterShown(state)
  /\ state.workspaceMode = "view"
  /\ conflict(state)[1].type \in {"TEMPORAL", "CONTRADICTION"}
  /\ Handled(startResolution(state), localFiles)

\* Footer, view mode: Edit Manually (TEMPORAL, CONTRADICTION), Edit to Fix (INTRA_DOC)
ClickInitManualDraft ==
  /\ FooterShown(state)
  /\ state.workspaceMode = "view"
  /\ Handled(initManualDraft(state, conflict(state)[1]), localFiles)

\* Footer, resolve mode: Cancel
ClickCancel ==
  /\ FooterShown(state)
  /\ state.workspaceMode = "resolve"
  /\ Handled(cancelResolution(state), localFiles)

\* Footer, resolve mode: Preview Changes (the button is never disabled)
ClickPreview ==
  /\ FooterShown(state)
  /\ state.workspaceMode = "resolve"
  /\ Handled(goToPreview(state), localFiles)

\* Footer, preview mode: Back to Edit
ClickReturnToEdit ==
  /\ FooterShown(state)
  /\ state.workspaceMode = "preview"
  /\ Handled(returnToEdit(state), localFiles)

\* Footer, preview mode: Confirm & Verify.  The VerificationView it mounts
\* starts a run; the model holds MaxRuns runs with pending timers.
ClickSubmit ==
  /\ FooterShown(state)
  /\ state.workspaceMode = "preview"
  /\ FreeSlots(runs) # {}
  /\ Handled(submitResolution(state), localFiles)

\* The resolution form of the resolve mode is rendered by the conflict's type.
FormShown(st, type) ==
  MainShown(st) /\ st.workspaceMode = "resolve" /\ conflict(st)[1].type = type

\* TemporalResolutionForm: the radio of a mention
SelectTemporal ==
  /\ FormShown(state, "TEMPORAL")
  /\ \E i \in DOMAIN conflict(state)[1].mentions :
       LET mention == conflict(state)[1].mentions[i]
       IN  Input(updateDraft(state, [selectedTemporalId |-> mention.id]))

\* TemporalResolutionForm: the checkbox, checked={resolutionDraft?.keepHistory || false}
ToggleKeepHistory ==
  /\ FormShown(state, "TEMPORAL")
  /\ LET draft == state.resolutionDraft
         checked == IF draft # NoDraft /\ "keepHistory" \in DOMAIN draft
                    THEN draft.keepHistory ELSE FALSE
     IN  Input(updateDraft(state, [keepHistory |-> ~checked]))

\* ContradictionResolutionForm: the radio of a mention, or of NEITHER
SelectCorrect ==
  /\ FormShown(state, "CONTRADICTION")
  /\ \E id \in {conflict(state)[1].mentions[i].id :
                  i \in DOMAIN conflict(state)[1].mentions} \cup {"NEITHER"} :
       Input(updateDraft(state, [selectedCorrectId |-> id]))

\* ContradictionResolutionForm: the reasoning textarea
TypeReasoning ==
  /\ FormShown(state, "CONTRADICTION")
  /\ \E text \in ReasoningInputs :
       Input(updateDraft(state, [reasoning |-> text]))

\* ManualEditorForm: const draft = resolutionDraft?.edits?.[mention.id]
DraftEdit(st, mentionId) ==
  IF st.resolutionDraft # NoDraft /\ "edits" \in DOMAIN st.resolutionDraft
     /\ mentionId \in DOMAIN st.resolutionDraft.edits
  THEN << st.resolutionDraft.edits[mentionId] >>
  ELSE << >>

\* ManualEditorForm: Reset
ResetEdit ==
  /\ FormShown(state, "INTRA_DOC")
  /\ \E i \in DOMAIN conflict(state)[1].mentions :
       LET mention == conflict(state)[1].mentions[i]
       IN  Input(updateManualEdit(state, mention.id, mention.text, "UPDATE"))

\* ManualEditorForm: the textarea, with the action draft?.action || 'UPDATE'
TypeEdit ==
  /\ FormShown(state, "INTRA_DOC")
  /\ \E i \in DOMAIN conflict(state)[1].mentions :
       LET mention == conflict(state)[1].mentions[i]
           draft == DraftEdit(state, mention.id)
           action == IF draft # << >> THEN draft[1].action ELSE "UPDATE"
       IN  \E text \in TypedTexts \cup {mention.text} :
             Input(updateManualEdit(state, mention.id, text, action))

\* ManualEditorForm: an action radio, with the text draft?.text || mention.text
PickAction ==
  /\ FormShown(state, "INTRA_DOC")
  /\ \E i \in DOMAIN conflict(state)[1].mentions :
       LET mention == conflict(state)[1].mentions[i]
           draft == DraftEdit(state, mention.id)
           text == IF draft # << >> /\ draft[1].text # "" THEN draft[1].text
                   ELSE mention.text
       IN  \E action \in ManualAction :
             Input(updateManualEdit(state, mention.id, text, action))

RECURSIVE FindNextOpen(_, _, _)
\* conflicts.find(c => c.status === 'OPEN' && c.id !== id), from index from on
FindNextOpen(cs, id, from) ==
  IF from > Len(cs) THEN << >>
  ELSE IF cs[from].status = "OPEN" /\ cs[from].id # id THEN << cs[from] >>
  ELSE FindNextOpen(cs, id, from + 1)

\* nextConflict taking the last OPEN conflict of the list
nextConflict_LastOpen(st) ==
  LET open == {i \in DOMAIN st.conflicts :
                 st.conflicts[i].status = "OPEN"
                   /\ st.conflicts[i].id # conflict(st)[1].id}
  IN  IF open = {} THEN << >>
      ELSE << st.conflicts[CHOOSE i \in open : \A j \in open : j <= i] >>

\* ResolvedView: const nextConflict = ...
nextConflict(st) == FindNextOpen(st.conflicts, conflict(st)[1].id, 1)

\* ResolvedView.handleNext (Next Conflict / Finalize All)
HandleNext ==
  /\ ResolvedViewShown(state)
  /\ IF nextConflict(state) # << >>
     THEN Handled(selectConflict(state, nextConflict(state)[1].id), localFiles)
     ELSE Handled(setAllCleared(state), localFiles)

\* The finalizeResolution timer of a run has fired.  A run without pending
\* timers is over: its record keeps only how often it called finalize.
FinalizeCallback(run) ==
  LET after == [run EXCEPT !.finalizePending = @ - 1, !.finalized = @ + 1]
  IN  IF TimersPending(after) THEN after ELSE [after EXCEPT !.conflictId = NULL]

\* A step timer of run r fires.
StepTimerOf(r) ==
  /\ runs[r].pending > 0
  /\ runs' = [runs EXCEPT ![r] = StepCallback(runs[r])]
  /\ logs' = LogsAfterStep(runs[r], logs)
  /\ UNCHANGED << state, localFiles, now, inputs >>

StepTimer == \E r \in DOMAIN runs : StepTimerOf(r)

\* The finalizeResolution timer of run r fires; t is the clock it reads.
FinalizeTimerOf(r, t) ==
  /\ runs[r].finalizePending > 0
  /\ t \in now..MaxClock
  /\ LET st == finalizeResolution(state, t)
         rs == [runs EXCEPT ![r] = FinalizeCallback(runs[r])]
     IN  /\ state' = st
         /\ now' = t
         /\ runs' = Render(rs, logs, state, st)[1]
         /\ logs' = Render(rs, logs, state, st)[2]
         /\ inputs' = 0
         /\ UNCHANGED localFiles

FinalizeTimer == \E r \in DOMAIN runs : \E t \in 0..MaxClock : FinalizeTimerOf(r, t)

Next ==
  \/ Login
  \/ Logout
  \/ DownloadExport
  \/ HandleDrop
  \/ ClearLocalFiles
  \/ StartAnalysis
  \/ AnalysisComplete
  \/ SidebarSelect
  \/ ClickStartResolution
  \/ ClickInitManualDraft
  \/ ClickCancel
  \/ ClickPreview
  \/ ClickReturnToEdit
  \/ ClickSubmit
  \/ SelectTemporal
  \/ ToggleKeepHistory
  \/ SelectCorrect
  \/ TypeReasoning
  \/ ResetEdit
  \/ TypeEdit
  \/ PickAction
  \/ HandleNext
  \/ StepTimer
  \/ FinalizeTimer

Spec == Init /\ [][Next]_vars

\* Browser timers that are due do fire: each run's callbacks are weakly fair.
FairSpec ==
  /\ Spec
  /\ \A r \in 1..MaxRuns :
       /\ WF_vars(StepTimerOf(r))
       /\ WF_vars(\E t \in 0..MaxClock : FinalizeTimerOf(r, t))

\* ----------------------------------------------------------------- claims

ConflictIds == {MOCK_CONFLICTS[i].id : i \in DOMAIN MOCK_CONFLICTS}

RunsInFlight == {r \in DOMAIN runs : TimersPending(runs[r])}

\* C1: in every reachable state every conflict of the list has resolvedAt
\* present if and only if its status is RESOLVED.
C1_ResolvedAtIffResolved ==
  \A i \in DOMAIN state.conflicts :
    ("resolvedAt" \in DOMAIN state.conflicts[i])
      <=> (state.conflicts[i].status = "RESOLVED")

\* C1 witness: the list holds a RESOLVED conflict with its stamp beside an
\* OPEN one without.
C1_Witness ==
  /\ \E i \in DOMAIN state.conflicts :
       /\ state.conflicts[i].status = "RESOLVED"
       /\ "resolvedAt" \in DOMAIN state.conflicts[i]
  /\ \E i \in DOMAIN state.conflicts :
       /\ state.conflicts[i].status = "OPEN"
       /\ "resolvedAt" \notin DOMAIN state.conflicts[i]

\* C2 (as claimed): a sidebar selection made while workspaceMode is verifying
\* leaves selectedConflictId, workspaceMode and resolutionDraft unchanged.
C2_SelectDisallowedWhileVerifying ==
  [][ \A id \in ConflictIds :
        (state.workspaceMode = "verifying" /\ SidebarSelectOf(id))
          => /\ state'.selectedConflictId = state.selectedConflictId
             /\ state'.workspaceMode = state.workspaceMode
             /\ state'.resolutionDraft = state.resolutionDraft ]_vars

\* C3 (as claimed): a finalize step turns OPEN into RESOLVED only for the
\* conflict of the draft its run was submitted for.
C3_FinalizeMarksSubmittedConflict ==
  [][ \A r \in DOMAIN runs : \A t \in 0..MaxClock :
        FinalizeTimerOf(r, t)
          => \A i \in DOMAIN state.conflicts :
               (state.conflicts[i].status = "OPEN"
                  /\ state'.conflicts[i].status = "RESOLVED")
                 => state.conflicts[i].id = runs[r].conflictId ]_vars

\* C4 (as claimed): at most one verification run has timers pending.
C4_AtMostOneRunInFlight == Cardinality(RunsInFlight) <= 1

\* C5: a run calls finalizeResolution only when its five step callbacks have
\* fired and it has not called it before, that call leaves the run without
\* pending timers (so it is the only one), and every run with pending timers
\* does reach that call.
C5_FinalizeExactlyOnceAfterLastStep ==
  /\ [][ \A r \in DOMAIN runs : \A t \in 0..MaxClock :
           FinalizeTimerOf(r, t)
             => /\ runs[r].pending = 0
                /\ runs[r].finalized = 0
                /\ runs'[r].finalized = 1
                /\ ~TimersPending(runs'[r]) ]_vars
  /\ [](\A r \in DOMAIN runs : runs[r].finalized <= 1)
  /\ \A r \in 1..MaxRuns :
       (runs[r].pending = Len(steps))
         ~> (~TimersPending(runs[r]) /\ runs[r].finalized = 1)

\* C5 witness: a run is over, having called finalizeResolution once, while the
\* timers of another run are still pending.
C5_Witness ==
  \E r, q \in DOMAIN runs :
    /\ runs[r].finalized = 1 /\ ~TimersPending(runs[r])
    /\ TimersPending(runs[q])

IsPrefix(s, t) == Len(s) <= Len(t) /\ \A i \in 1..Len(s) : s[i] = t[i]

\* C6 (as claimed): the log is always a prefix of the five messages, every
\* step callback appends the message of its step, and between submit and
\* finalize nothing but a timer callback changes the log.
C6_LogAppendOnlyAndOrdered ==
  /\ [](IsPrefix(logs, steps))
  /\ [][ \A r \in DOMAIN runs :
           StepTimerOf(r)
             => logs' = Append(logs, steps[Len(steps) - runs[r].pending + 1]) ]_vars
  /\ [][ (state.workspaceMode = "verifying" /\ ~StepTimer /\ ~FinalizeTimer)
           => logs' = logs ]_vars

\* C7: a conflict that is RESOLVED stays in the list and stays RESOLVED with
\* every step but the logout that ends the session.
C7_StatusOneWay ==
  [][ \A i \in DOMAIN state.conflicts :
        state.conflicts[i].status = "RESOLVED"
          => \/ Logout
             \/ /\ i \in DOMAIN state'.conflicts
                /\ state'.conflicts[i].id = state.conflicts[i].id
                /\ state'.conflicts[i].status = "RESOLVED" ]_vars

\* C7 witness: with one conflict RESOLVED, a second one has been resolved by a
\* later run.
C7_Witness ==
  \E i, j \in DOMAIN state.conflicts :
    /\ i # j
    /\ state.conflicts[i].status = "RESOLVED"
    /\ state.conflicts[j].status = "RESOLVED"
    /\ state.conflicts[i].resolvedAt < state.conflicts[j].resolvedAt

\* C8 (as claimed): the resolvedAt of a RESOLVED conflict never changes while
\* the conflict is in the list.
C8_ResolvedAtSetOnce ==
  [][ \A i \in DOMAIN state.conflicts :
        (state.conflicts[i].status = "RESOLVED" /\ i \in DOMAIN state'.conflicts)
          => /\ "resolvedAt" \in DOMAIN state'.conflicts[i]
             /\ state'.conflicts[i].resolvedAt = state.conflicts[i].resolvedAt ]_vars

\* The validation gate of the selected conflict's type, on the draft of st.
GatePasses(st) ==
  LET c == conflict(st)
      draft == st.resolutionDraft
  IN  /\ c # << >>
      /\ draft # NoDraft
      /\ CASE c[1].type = "TEMPORAL" ->
                "selectedTemporalId" \in DOMAIN draft
           [] c[1].type = "CONTRADICTION" ->
                /\ "selectedCorrectId" \in DOMAIN draft
                /\ "reasoning" \in DOMAIN draft
                /\ Len(draft.reasoning) >= MinReasoningChars
           [] c[1].type = "INTRA_DOC" ->
                \E m \in DOMAIN draft.edits : draft.edits[m].isDirty

\* C9 (as claimed): Preview Changes leaves resolve only with a draft that
\* passes the gate, so the draft of every preview or verifying state passes it.
C9_PreviewOnlyThroughGate ==
  /\ [][ ClickPreview => GatePasses(state) ]_vars
  /\ [](state.workspaceMode \in {"preview", "verifying"} => GatePasses(state))

\* C10: a selection made in any mode but verifying, by the sidebar or by
\* ResolvedView's Next Conflict, leaves the chosen id selected, the mode view
\* and no draft.
C10_SelectResetsWorkspace ==
  [][ \A id \in ConflictIds :
        (/\ state.workspaceMode # "verifying"
         /\ \/ SidebarSelectOf(id)
            \/ /\ HandleNext
               /\ nextConflict(state) # << >>
               /\ nextConflict(state)[1].id = id)
          => /\ state'.selectedConflictId = id
             /\ state'.workspaceMode = "view"
             /\ state'.resolutionDraft = NoDraft ]_vars

\* C10 witness: the last conflict of the list is selected in view mode without
\* a draft while every conflict is OPEN, which only a sidebar click brings about.
C10_Witness ==
  /\ state.view = "dashboard"
  /\ state.selectedConflictId = "C-003"
  /\ state.workspaceMode = "view"
  /\ state.resolutionDraft = NoDraft
  /\ \A i \in DOMAIN state.conflicts : state.conflicts[i].status = "OPEN"

\* C11 (as claimed): a draft, whenever there is one, is the draft of the
\* selected conflict.
C11_DraftScopedToSelection ==
  state.resolutionDraft # NoDraft
    => state.resolutionDraft.conflictId = state.selectedConflictId

\* C12 (as claimed): the finalize step that leaves verifying leaves no draft,
\* and no draft names a conflict that is RESOLVED.
C12_FinalizeDiscardsDraft ==
  /\ [][ (state.workspaceMode = "verifying" /\ FinalizeTimer)
           => state'.resolutionDraft = NoDraft ]_vars
  /\ [](state.resolutionDraft # NoDraft
          => \A i \in DOMAIN state.conflicts :
               state.conflicts[i].id = state.resolutionDraft.conflictId
                 => state.conflicts[i].status # "RESOLVED")

\* C13: the button of ResolvedView selects the first conflict of the list that
\* is OPEN and is not the one just resolved, in view mode; when there is none
\* it leaves all_cleared with nothing selected.
C13_AdvanceFromResolved ==
  [][ HandleNext =>
        LET open == {i \in DOMAIN state.conflicts :
                       state.conflicts[i].status = "OPEN"
                         /\ state.conflicts[i].id # state.selectedConflictId}
        IN  IF open # {}
            THEN /\ \E i \in open :
                      /\ \A j \in open : i <= j
                      /\ state'.selectedConflictId = state.conflicts[i].id
                 /\ state'.workspaceMode = "view"
            ELSE /\ state'.workspaceMode = "all_cleared"
                 /\ state'.selectedConflictId = NULL ]_vars

\* C13 witness: the advance from the last resolved conflict has happened.
C13_Witness ==
  /\ state.view = "dashboard"
  /\ state.workspaceMode = "all_cleared"
  /\ state.selectedConflictId = NULL
  /\ \A i \in DOMAIN state.conflicts : state.conflicts[i].status = "RESOLVED"

\* C14: the selection, the draft operations, submit, the advance and the step
\* timers leave the conflict list as it is, and a finalize step keeps the
\* length and order of the list, leaves every conflict but the selected one as
\* it is, and changes no field of the selected one but status and resolvedAt.
C14_ConflictListFrame ==
  /\ [][ (\/ SidebarSelect \/ ClickStartResolution \/ ClickInitManualDraft
          \/ ClickCancel \/ ClickPreview \/ ClickReturnToEdit \/ ClickSubmit
          \/ SelectTemporal \/ ToggleKeepHistory \/ SelectCorrect
          \/ TypeReasoning \/ ResetEdit \/ TypeEdit \/ PickAction
          \/ HandleNext \/ StepTimer)
           => state'.conflicts = state.conflicts ]_vars
  /\ [][ FinalizeTimer =>
           /\ DOMAIN state'.conflicts = DOMAIN state.conflicts
           /\ \A i \in DOMAIN state.conflicts :
                LET old == state.conflicts[i]
                    new == state'.conflicts[i]
                IN  IF old.id = state.selectedConflictId
                    THEN /\ DOMAIN new \ {"resolvedAt"} = DOMAIN old \ {"resolvedAt"}
                         /\ \A k \in DOMAIN old \ {"status", "resolvedAt"} :
                              new[k] = old[k]
                    ELSE new = old ]_vars

\* C14 witness: a finalize step has marked the selected conflict and the rest
\* of the list is the loaded snapshot.
C14_Witness ==
  /\ state.workspaceMode = "resolved"
  /\ \E i \in DOMAIN state.conflicts :
       /\ state.conflicts[i].id = state.selectedConflictId
       /\ state.conflicts[i].status = "RESOLVED"
       /\ \A j \in DOMAIN state.conflicts \ {i} :
            state.conflicts[j] = MOCK_CONFLICTS[j]

\* C15: every edit of the draft belongs to a mention of the conflict list, and
\* its isDirty is true exactly when its text differs from that mention's text.
C15_IsDirtyIffTextDiffers ==
  state.resolutionDraft # NoDraft
    => \A m \in DOMAIN state.resolutionDraft.edits :
         \E i \in DOMAIN state.conflicts :
           \E k \in DOMAIN state.conflicts[i].mentions :
             /\ state.conflicts[i].mentions[k].id = m
             /\ state.resolutionDraft.edits[m].isDirty
                  <=> (state.resolutionDraft.edits[m].text
                         # state.conflicts[i].mentions[k].text)

\* C15 witness: the draft holds an edit whose text was changed beside one whose
\* text is the original.
C15_Witness ==
  /\ state.resolutionDraft # NoDraft
  /\ \E m, n \in DOMAIN state.resolutionDraft.edits :
       /\ state.resolutionDraft.edits[m].isDirty
       /\ ~state.resolutionDraft.edits[n].isDirty

\* Arguments for calls of updateManualEdit: the ids of the mentions of the
\* conflict that has the editor form, of a mention of another conflict and one
\* id that names no mention; a typed text and an original one.
EditIdArgs ==
  {MOCK_CONFLICTS[3].mentions[k].id : k \in DOMAIN MOCK_CONFLICTS[3].mentions}
    \cup {MOCK_CONFLICTS[1].mentions[1].id, "m0"}

EditTextArgs ==
  {"Monthly fee: $52,000 per month", MOCK_CONFLICTS[3].mentions[1].text}

\* C16: in every state, a second call of updateManualEdit with the arguments
\* of the first leaves the store as the first call left it.
C16_UpdateManualEditIdempotent ==
  \A mentionId \in EditIdArgs : \A text \in EditTextArgs : \A action \in ManualAction :
    LET once == updateManualEdit(state, mentionId, text, action)
    IN  updateManualEdit(once, mentionId, text, action) = once

\* C16 witness: a draft is active on which a call of updateManualEdit changes
\* the store.
C16_Witness ==
  /\ state.resolutionDraft # NoDraft
  /\ state.workspaceMode = "resolve"
  /\ \E mentionId \in EditIdArgs : \E text \in EditTextArgs :
       updateManualEdit(state, mentionId, text, "CLARIFY") # state

\* Arguments for calls of updateDraft: what the forms pass.
DraftUpdateArgs ==
  { [selectedTemporalId |-> "m1"], [keepHistory |-> TRUE],
    [selectedCorrectId |-> "NEITHER"], [reasoning |-> "ok"] }

\* C17: in every state without a draft, updateDraft and updateManualEdit leave
\* the whole store, and so the absent draft, the mode, the selection and the
\* conflict list, as it is.
C17_NoDraftNoOp ==
  state.resolutionDraft = NoDraft
    => /\ \A updates \in DraftUpdateArgs : updateDraft(state, updates) = state
       /\ \A mentionId \in EditIdArgs : \A text \in EditTextArgs :
            \A action \in ManualAction :
              updateManualEdit(state, mentionId, text, action) = state

\* C17 witness: the dashboard shows a selected conflict and there is no draft.
C17_Witness ==
  /\ state.view = "dashboard"
  /\ state.resolutionDraft = NoDraft
  /\ state.selectedConflictId # NULL
  /\ state.conflicts # << >>

\* Texts for calls of simpleDiff: originals, a typed text, the empty text and
\* two texts that differ from an original in whitespace only.
DiffTextArgs ==
  TypedTexts
    \cup {MOCK_CONFLICTS[3].mentions[k].text : k \in DOMAIN MOCK_CONFLICTS[3].mentions}
    \cup {"", "Monthly fee:  $50,000 per month", "Monthly fee: $50,000 per month "}

\* The spans of a diff result that carry the given class.
SpansOf(diff, class) == {i \in DOMAIN diff : diff[i].class = class}

\* The result is one deletion span with all of x and one insertion span with
\* all of y, and nothing else.
IsWholeTextDiff(diff, x, y) ==
  /\ Len(diff) = 2
  /\ Cardinality(SpansOf(diff, "deletion")) = 1
  /\ Cardinality(SpansOf(diff, "insertion")) = 1
  /\ \A i \in SpansOf(diff, "deletion") : diff[i].text = x
  /\ \A i \in SpansOf(diff, "insertion") : diff[i].text = y

C19_ExportMatchesConflicts ==
  \A t \in now..MaxClock :
    LET doc == exportData(state, t)
        resolved == {i \in DOMAIN state.conflicts :
                       state.conflicts[i].status = "RESOLVED"}
    IN  /\ doc.summary.totalConflicts = Len(state.conflicts)
        /\ doc.summary.resolved = Cardinality(resolved)
        /\ DOMAIN doc.auditLog = DOMAIN state.conflicts
        /\ \A i \in DOMAIN state.conflicts :
             /\ doc.auditLog[i].id = state.conflicts[i].id
             /\ doc.auditLog[i].type = state.conflicts[i].type
             /\ doc.auditLog[i].status = state.conflicts[i].status
             /\ ("resolvedAt" \in DOMAIN doc.auditLog[i])
                  <=> ("resolvedAt" \in DOMAIN state.conflicts[i])
             /\ "resolvedAt" \in DOMAIN state.conflicts[i]
                  => doc.auditLog[i].resolvedAt = state.conflicts[i].resolvedAt
        /\ ENABLED DownloadExport
             => doc.summary.resolved = doc.summary.totalConflicts

\* C19 witness: the Export button is enabled on conflicts that were not all
\* resolved at the same clock reading.
C19_Witness ==
  /\ ENABLED DownloadExport
  /\ \E i, j \in DOMAIN state.conflicts :
       state.conflicts[i].resolvedAt # state.conflicts[j].resolvedAt

\* C20 (as claimed): no edit of the draft holds a text longer than the bound.
C20_EditTextBounded ==
  state.resolutionDraft # NoDraft
    => \A m \in DOMAIN state.resolutionDraft.edits :
         Len(state.resolutionDraft.edits[m].text) <= MaxTextChars

WorkspaceModes == {"view", "resolve", "preview", "verifying", "resolved", "all_cleared"}

\* The edges of the transition table of the workspace mode.
ModeEdges ==
  { << "view", "resolve" >>, << "resolve", "view" >>, << "resolve", "preview" >>,
    << "preview", "resolve" >>, << "preview", "verifying" >>,
    << "verifying", "resolved" >>, << "resolved", "view" >>,
    << "resolved", "all_cleared" >> }
    \cup {<< m, "view" >> : m \in WorkspaceModes \ {"verifying"}}

\* C21 (as claimed): within a session every change of workspaceMode is an edge
\* of the table; so only resolved follows verifying and only verifying
\* precedes resolved.
C21_ModeChangesFollowTable ==
  [][ (~Logout /\ state'.workspaceMode # state.workspaceMode)
        => << state.workspaceMode, state'.workspaceMode >> \in ModeEdges ]_vars

\* The store fields that an ignored action leaves as they are.
SameWorkspace(st, old) ==
  /\ st.workspaceMode = old.workspaceMode
  /\ st.resolutionDraft = old.resolutionDraft
  /\ st.selectedConflictId = old.selectedConflictId
  /\ st.conflicts = old.conflicts

\* C22 (as claimed): on the dashboard, cancel and go-to-preview outside
\* resolve, return-to-edit and submit outside preview, start outside view and
\* finalize outside verifying leave the mode, the draft, the selection and the
\* conflict list as they are.
C22_InvalidModeIgnored ==
  state.view = "dashboard"
    => /\ state.workspaceMode # "resolve"
            => /\ SameWorkspace(cancelResolution(state), state)
               /\ SameWorkspace(goToPreview(state), state)
       /\ state.workspaceMode # "preview"
            => /\ SameWorkspace(returnToEdit(state), state)
               /\ SameWorkspace(submitResolution(state), state)
       /\ state.workspaceMode # "view"
            => SameWorkspace(startResolution(state), state)
       /\ state.workspaceMode # "verifying"
            => \A t \in now..MaxClock :
                 SameWorkspace(finalizeResolution(state, t), state)

\* C23 (as claimed): with the timers firing, a verifying workspace leads to a
\* resolved one in which the conflict that was verifying is RESOLVED and
\* stamped, unless the session is ended before.
C23_VerifyingLeadsToResolved ==
  \A id \in ConflictIds :
    (state.view = "dashboard" /\ state.workspaceMode = "verifying"
       /\ state.selectedConflictId = id)
      ~> \/ state.view = "login"
         \/ /\ state.workspaceMode = "resolved"
            /\ \E i \in DOMAIN state.conflicts :
                 /\ state.conflicts[i].id = id
                 /\ state.conflicts[i].status = "RESOLVED"
                 /\ "resolvedAt" \in DOMAIN state.conflicts[i]

\* C24: in every state whose workspaceMode is all_cleared every conflict of
\* the list is RESOLVED and no conflict is selected.
C24_AllClearedMeansNoneOpen ==
  state.workspaceMode = "all_cleared"
    => /\ \A i \in DOMAIN state.conflicts : state.conflicts[i].status = "RESOLVED"
       /\ state.selectedConflictId = NULL

\* C24 witness: AllClearView is on the screen over the loaded conflicts.
C24_Witness ==
  /\ AllClearViewShown(state)
  /\ Len(state.conflicts) = Len(MOCK_CONFLICTS)

\* C25 (as claimed): once the workspace is all_cleared, no step of the session
\* (no click, no timer callback) changes workspaceMode or selectedConflictId.
C25_AllClearedTerminal ==
  [][ (state.workspaceMode = "all_cleared" /\ ~Logout)
        => /\ state'.workspaceMode = state.workspaceMode
           /\ state'.selectedConflictId = state.selectedConflictId ]_vars

\* The ids that name no mention of the selected conflict of st (all ids when
\* the selected conflict is not found).
UnknownMentionIds(st) ==
  {m \in EditIdArgs :
     conflict(st) = << >> \/ FindById(conflict(st)[1].mentions, m) = << >>}

\* C26 (as claimed): with a draft active, updateManualEdit for an id that names
\* no mention of the selected conflict stores an edit whose isDirty is false.
C26_UnknownMentionNotDirty ==
  state.resolutionDraft # NoDraft
    => \A m \in UnknownMentionIds(state) : \A text \in EditTextArgs :
         ~updateManualEdit(state, m, text, "UPDATE").resolutionDraft.edits[m].isDirty

\* C27: a finalize step taken while no conflict of the list is selected leaves
\* the conflict list as it is.
C27_FinalizeWithoutSelection ==
  [][ (FinalizeTimer /\ conflict(state) = << >>)
        => state'.conflicts = state.conflicts ]_vars

\* C27 witness: the loaded list is on the dashboard in resolved mode with
\* nothing selected, where only a finalize step without a selection leads.
C27_Witness ==
  /\ state.view = "dashboard"
  /\ state.workspaceMode = "resolved"
  /\ state.selectedConflictId = NULL
  /\ state.conflicts # << >>

\* C28: in every state startResolution, with a conflict selected, gives the
\* mode resolve and a draft of just that conflict's id and no edits, whatever
\* draft there was, and keeps the rest of the store; with none selected it
\* changes nothing.  So does the click on Quick Resolve / Pick Correct.
C28_StartResolutionEmptyDraft ==
  /\ [](LET new == startResolution(state)
        IN  IF state.selectedConflictId # NULL
            THEN /\ new.workspaceMode = "resolve"
                 /\ DOMAIN new.resolutionDraft = {"conflictId", "edits"}
                 /\ new.resolutionDraft.conflictId = state.selectedConflictId
                 /\ DOMAIN new.resolutionDraft.edits = {}
                 /\ new.selectedConflictId = state.selectedConflictId
                 /\ new.conflicts = state.conflicts
            ELSE new = state)
  /\ [][ ClickStartResolution
           => /\ state'.workspaceMode = "resolve"
              /\ DOMAIN state'.resolutionDraft = {"conflictId", "edits"}
              /\ state'.resolutionDraft.conflictId = state.selectedConflictId
              /\ DOMAIN state'.resolutionDraft.edits = {} ]_vars

\* C28 witness: the workspace is in resolve mode on the empty draft of the
\* selected conflict, which only startResolution makes.
C28_Witness ==
  /\ state.workspaceMode = "resolve"
  /\ state.selectedConflictId # NULL
  /\ state.resolutionDraft = [conflictId |-> state.selectedConflictId,
                              edits |-> EmptyObject]

\* The store after initManualDraft(c) holds the fresh manual draft of c.
IsFreshManualDraft(st, c) ==
  /\ st.workspaceMode = "resolve"
  /\ DOMAIN st.resolutionDraft = {"conflictId", "edits"}
  /\ st.resolutionDraft.conflictId = c.id
  /\ DOMAIN st.resolutionDraft.edits = {c.mentions[k].id : k \in DOMAIN c.mentions}
  /\ \A k \in DOMAIN c.mentions :
       st.resolutionDraft.edits[c.mentions[k].id]
         = [text |-> c.mentions[k].text, action |-> "UPDATE", isDirty |-> FALSE]

\* C29: in every state initManualDraft(c), for every conflict c of the list,
\* gives the mode resolve and a draft of c's id whose edits hold one entry per
\* mention of c and no other, each with the mention's text, the action UPDATE
\* and isDirty false, and no selection field.  So does the click on Edit
\* Manually / Edit to Fix for the conflict shown.
C29_InitManualDraftPerMention ==
  /\ [](\A i \in DOMAIN state.conflicts :
          IsFreshManualDraft(initManualDraft(state, state.conflicts[i]),
                             state.conflicts[i]))
  /\ [][ ClickInitManualDraft
           => IsFreshManualDraft(state', conflict(state)[1]) ]_vars

\* C29 witness: the workspace holds the fresh manual draft of the conflict with
\* the editor form.
C29_Witness ==
  /\ state.selectedConflictId = MOCK_CONFLICTS[3].id
  /\ IsFreshManualDraft(state, MOCK_CONFLICTS[3])

\* C30: in every state with a draft, updateDraft gives a draft with the fields
\* of the old one and of the partial, where the fields of the partial have the
\* values of the partial and all others, conflictId and edits among them, the
\* values they had, and leaves every other field of the store as it is.
C30_UpdateDraftShallowMerge ==
  state.resolutionDraft # NoDraft
    => \A updates \in DraftUpdateArgs :
         LET old == state.resolutionDraft
             new == updateDraft(state, updates)
         IN  /\ DOMAIN new.resolutionDraft = DOMAIN old \cup DOMAIN updates
             /\ \A k \in DOMAIN updates : new.resolutionDraft[k] = updates[k]
             /\ \A k \in DOMAIN old \ DOMAIN updates : new.resolutionDraft[k] = old[k]
             /\ new.workspaceMode = state.workspaceMode
             /\ new.selectedConflictId = state.selectedConflictId
             /\ new.conflicts = state.conflicts
             /\ \A k \in DOMAIN state \ {"resolutionDraft"} : new[k] = state[k]

\* C30 witness: two inputs of the contradiction form have been merged into the
\* draft one after the other.
C30_Witness ==
  /\ state.resolutionDraft # NoDraft
  /\ {"selectedCorrectId", "reasoning"} \subseteq DOMAIN state.resolutionDraft
  /\ state.resolutionDraft.conflictId = state.selectedConflictId

\* C31: the click on Back to Edit sets the mode resolve and leaves the draft,
\* the selection and the conflict list as they were; in every state of the
\* preview mode, returnToEdit changes the mode only, and goToPreview after it
\* gives the store there was, so that the preview shows the same draft.
C31_ReturnToEditKeepsDraft ==
  /\ [](state.workspaceMode = "preview"
          => LET back == returnToEdit(state)
             IN  /\ back.workspaceMode = "resolve"
                 /\ back.resolutionDraft = state.resolutionDraft
                 /\ back.selectedConflictId = state.selectedConflictId
                 /\ back.conflicts = state.conflicts
                 /\ goToPreview(back) = state
                 /\ PreviewDiffs(goToPreview(back)) = PreviewDiffs(state))
  /\ [][ ClickReturnToEdit
           => /\ state'.workspaceMode = "resolve"
              /\ state'.resolutionDraft = state.resolutionDraft
              /\ state'.selectedConflictId = state.selectedConflictId
              /\ state'.conflicts = state.conflicts ]_vars

\* C31 witness: the preview of a draft with a dirty manual edit, where Back to
\* Edit is offered.
C31_Witness ==
  /\ FooterShown(state)
  /\ state.workspaceMode = "preview"
  /\ state.resolutionDraft # NoDraft
  /\ \E id \in DOMAIN state.resolutionDraft.edits :
       state.resolutionDraft.edits[id].isDirty

\* C32: the click on Cancel sets the mode view and the draft to none and
\* leaves the selection and the conflict list as they were; in every state of
\* the resolve mode cancelResolution does the same, and a draft started after
\* it for the selected conflict, by startResolution or initManualDraft, is the
\* fresh one, with nothing of the draft that was cancelled.
C32_CancelDiscardsDraft ==
  /\ [](state.workspaceMode = "resolve"
          => LET cancelled == cancelResolution(state)
             IN  /\ cancelled.workspaceMode = "view"
                 /\ cancelled.resolutionDraft = NoDraft
                 /\ cancelled.selectedConflictId = state.selectedConflictId
                 /\ cancelled.conflicts = state.conflicts
                 /\ state.selectedConflictId # NULL
                      => startResolution(cancelled).resolutionDraft
                           = [ conflictId |-> state.selectedConflictId,
                               edits |-> EmptyObject ]
                 /\ conflict(state) # << >>
                      => IsFreshManualDraft(
                           initManualDraft(cancelled, conflict(cancelled)[1]),
                           conflict(state)[1]))
  /\ [][ ClickCancel
           => /\ state'.workspaceMode = "view"
              /\ state'.resolutionDraft = NoDraft
              /\ state'.selectedConflictId = state.selectedConflictId
              /\ state'.conflicts = state.conflicts ]_vars

\* C32 witness: the resolve mode with Cancel offered, on a draft that holds a
\* selection and a reasoning.
C32_Witness ==
  /\ FooterShown(state)
  /\ state.workspaceMode = "resolve"
  /\ state.resolutionDraft # NoDraft
  /\ {"selectedCorrectId", "reasoning"} \subseteq DOMAIN state.resolutionDraft
  /\ state.resolutionDraft # [ conflictId |-> state.selectedConflictId,
                               edits |-> EmptyObject ]

\* C33: in every reachable state with the mode view there is no draft.
C33_ViewModeHasNoDraft ==
  state.workspaceMode = "view" => state.resolutionDraft = NoDraft

\* C33 witness: the view mode on an OPEN conflict after another conflict went
\* through a resolution, whose draft was still in the store when the workspace
\* showed it resolved.
C33_Witness ==
  /\ state.view = "dashboard"
  /\ state.workspaceMode = "view"
  /\ state.resolutionDraft = NoDraft
  /\ conflict(state) # << >>
  /\ conflict(state)[1].status = "OPEN"
  /\ \E i \in DOMAIN state.conflicts : state.conflicts[i].status = "RESOLVED"

\* C34: in every reachable state with the mode resolve, preview or verifying
\* there is a draft, the selection names a conflict of the list, and that
\* conflict is OPEN; and no footer button that starts or advances a resolution
\* is clicked on a conflict that is RESOLVED.
C34_ResolutionOnlyOnOpenConflict ==
  /\ [](state.workspaceMode \in {"resolve", "preview", "verifying"}
          => /\ state.resolutionDraft # NoDraft
             /\ conflict(state) # << >>
             /\ conflict(state)[1].status = "OPEN")
  /\ [][ (ClickStartResolution \/ ClickInitManualDraft \/ ClickPreview
            \/ ClickSubmit \/ ClickReturnToEdit)
           => /\ conflict(state) # << >>
              /\ conflict(state)[1].status = "OPEN"
              /\ conflict(state') = conflict(state) ]_vars

\* C34 witness: a resolution under way on an OPEN conflict while another one
\* is RESOLVED and timers of an earlier verification are still pending.
C34_Witness ==
  /\ state.workspaceMode \in {"resolve", "preview"}
  /\ state.resolutionDraft # NoDraft
  /\ conflict(state) # << >>
  /\ conflict(state)[1].status = "OPEN"
  /\ \E i \in DOMAIN state.conflicts : state.conflicts[i].status = "RESOLVED"
  /\ RunsInFlight # {}

\* C35: in every reachable state with the mode resolved, the selection names a
\* conflict of the list and that conflict is RESOLVED.
C35_ResolvedModeHasResolvedSelection ==
  state.workspaceMode = "resolved"
    => /\ conflict(state) # << >>
       /\ conflict(state)[1].status = "RESOLVED"

\* The workspace after a reset: no conflicts, no selection, view mode, no draft.
IsResetWorkspace(st) ==
  /\ st.conflicts = << >>
  /\ st.selectedConflictId = NULL
  /\ st.workspaceMode = "view"
  /\ st.resolutionDraft = NoDraft

\* C36: logout and login leave the reset workspace, and a timer callback that
\* fires outside the dashboard, which only a verification of a session that
\* was ended can have left, changes neither the mode nor the conflict list
\* nor anything else of the store.
C36_ResetSilencesOldTimers ==
  /\ [][ (Login \/ Logout) => IsResetWorkspace(state') ]_vars
  /\ [][ (StepTimer \/ FinalizeTimer) /\ state.view # "dashboard"
           => state' = state ]_vars

\* The actions updateManualEdit is applied with in C37.
EditActionArgs == {"UPDATE", "KEEP"}

\* C37: in every state with a draft, updateManualEdit(mentionId, text, action)
\* gives edits with the entries there were and the one of mentionId, which
\* holds the text and the action given; every other entry of edits, every
\* other field of the draft and every other field of the store, the conflict
\* list with the original texts among them, are as they were.
C37_UpdateManualEditFrame ==
  state.resolutionDraft # NoDraft
    => \A mentionId \in EditIdArgs : \A text \in EditTextArgs :
         \A action \in EditActionArgs :
           LET old == state.resolutionDraft
               new == updateManualEdit(state, mentionId, text, action)
           IN  /\ DOMAIN new.resolutionDraft = DOMAIN old
               /\ \A k \in DOMAIN old \ {"edits"} : new.resolutionDraft[k] = old[k]
               /\ DOMAIN new.resolutionDraft.edits
                    = DOMAIN old.edits \cup {mentionId}
               /\ \A k \in DOMAIN old.edits \ {mentionId} :
                    new.resolutionDraft.edits[k] = old.edits[k]
               /\ new.resolutionDraft.edits[mentionId].text = text
               /\ new.resolutionDraft.edits[mentionId].action = action
               /\ \A k \in DOMAIN state \ {"resolutionDraft"} : new[k] = state[k]

\* C37 witness: the manual draft of the conflict with the editor form after an
\* edit of one mention: that entry is dirty, the entries of the other mentions
\* are the ones initManualDraft made.
C37_Witness ==
  /\ state.selectedConflictId = MOCK_CONFLICTS[3].id
  /\ state.resolutionDraft # NoDraft
  /\ LET edits == state.resolutionDraft.edits
         ms == MOCK_CONFLICTS[3].mentions
     IN  /\ DOMAIN edits = {ms[k].id : k \in DOMAIN ms}
         /\ edits[ms[1].id].isDirty
         /\ edits[ms[1].id].action = "CLARIFY"
         /\ \A k \in DOMAIN ms \ {1} :
              edits[ms[k].id]
                = [text |-> ms[k].text, action |-> "UPDATE", isDirty |-> FALSE]

\* C38: whenever the reviewer can trigger the export, by the Export button of
\* the top bar or the download button of the all-cleared screen, the conflict
\* list is not empty and every conflict is RESOLVED, and the document that is
\* exported lists no OPEN conflict; every export that happens starts from
\* such a state.
C38_ExportOnlyWhenAllResolved ==
  /\ [](ENABLED DownloadExport
          => /\ Len(state.conflicts) > 0
             /\ \A i \in DOMAIN state.conflicts :
                  state.conflicts[i].status = "RESOLVED"
             /\ \A t \in now..MaxClock :
                  \A i \in DOMAIN exportData(state, t).auditLog :
                    exportData(state, t).auditLog[i].status # "OPEN")
  /\ [][ DownloadExport
           => /\ Len(state.conflicts) > 0
              /\ \A i \in DOMAIN state.conflicts :
                   state.conflicts[i].status = "RESOLVED" ]_vars

\* C38 witness: the export can be triggered both from the top bar and from the
\* all-cleared screen, after an export has already advanced the clock.
C38_Witness ==
  /\ ENABLED DownloadExport
  /\ AllClearViewShown(state)
  /\ allResolved(state)
  /\ now > 0

====
